---- MODULE Spec2Model ----
(***************************************************************************)
(* Model of nse_indices_1.py: a linear batch job that loads a config,      *)
(* fetches one closing series per configured index, aggregates them into   *)
(* price / MTD % / DoD % tables, a ranked summary, a daily-movers digest,   *)
(* streak counts and a market overview, then writes a raw workbook, a      *)
(* summary CSV and a formatted dashboard workbook.                         *)
(*                                                                         *)
(* Percentages are kept as integers in hundredths of a percent (the code   *)
(* rounds every percentage to 2 decimals); a missing cell is NaN.          *)
(***************************************************************************)
EXTENDS Integers, Sequences, FiniteSets, TLC

VARIABLES pc, err, log, INDICES, i, outcome, provided, data_dict, cache,
          df_close, df_pct_mtd, df_pct_dod, summary, daily_summary,
          streaks, market_overview, written, raw_sheets, out_sheets

vars == <<pc, err, log, INDICES, i, outcome, provided, data_dict, cache,
          df_close, df_pct_mtd, df_pct_dod, summary, daily_summary,
          streaks, market_overview, written, raw_sheets, out_sheets>>

tables == <<df_close, df_pct_mtd, df_pct_dod, summary, daily_summary,
            streaks, market_overview>>

-----------------------------------------------------------------------------
(* Bounds of the model. *)

\* pipeline specification: configured indices, trading dates, price levels
MaxIdx == 2
MaxDates == 1
MaxPrice == 1

\* a cell is <<v>> for a number v, or NaN (missing)
\* aggregation specification: the closing level a series starts from and the
\* trading dates of the wide (many indices), long (one index) and gappy
\* (missing observations) inputs
BaseClose == 100
WideDates == 2
LongDates == 4
GapDates == 3

NaN == <<>>
IsNaN(x) == x = NaN
Num(x) == x[1]

\* display names a configuration may use, in configuration order
AllNames == <<"NIFTY 50", "NIFTY NEXT 50", "NIFTY 100", "NIFTY 200",
              "NIFTY 500", "NIFTY MIDCAP 50">>

\* ticker symbol of a display name, as a sequence of characters
Symbol(name) == <<"^", name>>

-----------------------------------------------------------------------------
(* Small helpers. *)

Range(s) == {s[k] : k \in DOMAIN s}

RECURSIVE SortedSeq(_)
SortedSeq(S) ==
    IF S = {} THEN <<>>
    ELSE LET m == CHOOSE x \in S : \A y \in S : x <= y
         IN  <<m>> \o SortedSeq(S \ {m})

Reverse(s) == [k \in 1..Len(s) |-> s[Len(s) + 1 - k]]

RemoveAt(s, k) == [j \in 1..(Len(s) - 1) |-> IF j < k THEN s[j] ELSE s[j + 1]]

RECURSIVE SumSeq(_)
SumSeq(s) == IF s = <<>> THEN 0 ELSE Head(s) + SumSeq(Tail(s))

Max2(a, b) == IF a >= b THEN a ELSE b

\* all closing series over dates 1..nd with prices 1..mp: a non-empty set of
\* trading dates, each with a price or a missing (NaN) close
SeriesSet(nd, mp) ==
    UNION {[D -> {<<p>> : p \in 1..mp} \cup {NaN}] : D \in (SUBSET (1..nd)) \ {{}}}

EmptyFrame == [index |-> <<>>, columns |-> <<>>, data |-> <<>>]

Pos(idx, d) == CHOOSE p \in 1..Len(idx) : idx[p] = d

-----------------------------------------------------------------------------
(* The result mapping (a dict: insertion-ordered, unique keys). *)

DictKeys(dd) == [k \in DOMAIN dd |-> dd[k].name]

DictHas(dd, name) == \E k \in DOMAIN dd : dd[k].name = name

DictGet(dd, name) == dd[CHOOSE k \in DOMAIN dd : dd[k].name = name].close

\* data_dict[name] = close
DictSet(dd, name, close) ==
    IF DictHas(dd, name)
    THEN [k \in DOMAIN dd |-> IF dd[k].name = name
                               THEN [name |-> name, close |-> close]
                               ELSE dd[k]]
    ELSE Append(dd, [name |-> name, close |-> close])

-----------------------------------------------------------------------------
(* Table operations of the aggregation stage. *)

\* pd.DataFrame(data_dict): rows are the union of the series' dates, one
\* column per key in insertion order, NaN where a series has no such date
DataFrame(dd) ==
    LET dates == UNION {DOMAIN dd[k].close : k \in DOMAIN dd}
        names == {dd[k].name : k \in DOMAIN dd}
    IN  [index   |-> SortedSeq(dates),
         columns |-> DictKeys(dd),
         data    |-> [c \in names |->
                        [d \in dates |->
                           IF d \in DOMAIN DictGet(dd, c)
                           THEN DictGet(dd, c)[d] ELSE NaN]]]

\* .sort_index(ascending=...)
SortIndex(df, ascending) ==
    LET asc == SortedSeq(Range(df.index))
    IN  [df EXCEPT !.index = IF ascending THEN asc ELSE Reverse(asc)]

\* .dropna(axis=1, how="all")
DropnaCols(df) ==
    LET keep == {c \in Range(df.columns) :
                    \E d \in Range(df.index) : ~IsNaN(df.data[c][d])}
    IN  [index   |-> df.index,
         columns |-> SelectSeq(df.columns, LAMBDA c : c \in keep),
         data    |-> [c \in keep |-> df.data[c]]]

RECURSIVE LastValid(_, _, _)
LastValid(idx, col, p) ==
    IF ~IsNaN(col[idx[p]]) THEN col[idx[p]]
    ELSE IF p = 1 THEN NaN ELSE LastValid(idx, col, p - 1)

RECURSIVE NextValid(_, _, _)
NextValid(idx, col, p) ==
    IF ~IsNaN(col[idx[p]]) THEN col[idx[p]]
    ELSE IF p = Len(idx) THEN NaN ELSE NextValid(idx, col, p + 1)

\* .ffill()
Ffill(df) ==
    [df EXCEPT !.data = [c \in DOMAIN df.data |->
        [d \in DOMAIN df.data[c] |->
            LastValid(df.index, df.data[c], Pos(df.index, d))]]]

\* .bfill()
Bfill(df) ==
    [df EXCEPT !.data = [c \in DOMAIN df.data |->
        [d \in DOMAIN df.data[c] |->
            NextValid(df.index, df.data[c], Pos(df.index, d))]]]

\* variant: the backward fill left out
AlignedPricesNoBfill(dd) ==
    Ffill(DropnaCols(SortIndex(DataFrame(dd), TRUE)))

\* variant: the forward fill left out
AlignedPricesNoFfill(dd) ==
    Bfill(DropnaCols(SortIndex(DataFrame(dd), TRUE)))

\* df_close as built from the result mapping
AlignedPrices(dd) ==
    Bfill(Ffill(DropnaCols(SortIndex(DataFrame(dd), TRUE))))

\* n / d rounded to the nearest integer, ties to even (d > 0)
RoundHalfEven(n, d) ==
    LET q == n \div d
        r == n - q * d
    IN  IF 2 * r < d THEN q
        ELSE IF 2 * r > d THEN q + 1
        ELSE IF q % 2 = 0 THEN q ELSE q + 1

\* ((v / b) - 1) * 100 rounded to 2 decimals, in hundredths of a percent
PctRound(v, b) ==
    IF IsNaN(v) \/ IsNaN(b) THEN NaN
    ELSE <<RoundHalfEven(10000 * (Num(v) - Num(b)), Num(b))>>

\* df_pct_mtd: every cell relative to the first row of its column
PctMtd(df) ==
    [df EXCEPT !.data = [c \in DOMAIN df.data |->
        [d \in DOMAIN df.data[c] |->
            PctRound(df.data[c][d], df.data[c][df.index[1]])]]]

\* df_pct_dod: every cell relative to the preceding row; first row missing
PctChange(df) ==
    [df EXCEPT !.data = [c \in DOMAIN df.data |->
        [d \in DOMAIN df.data[c] |->
            LET p == Pos(df.index, d)
            IN  IF p = 1 THEN NaN
                ELSE PctRound(df.data[c][d], df.data[c][df.index[p - 1]])]]]

\* one row of a table as a sequence of (name, val) in column order
RowOf(df, d) ==
    [k \in 1..Len(df.columns) |->
        [name |-> df.columns[k], val |-> df.data[df.columns[k]][d]]]

\* row.dropna()
DropnaRow(row) == SelectSeq(row, LAMBDA e : ~IsNaN(e.val))

\* variant: the rows left in column order
SortValuesNone(rows) == {rows}

\* a row that may come first in descending order: a greatest value, or,
\* when only missing values are left, the first of them
MayLead(rows, k) ==
    IF \A j \in DOMAIN rows : IsNaN(rows[j].val) THEN k = 1
    ELSE /\ ~IsNaN(rows[k].val)
         /\ \A j \in DOMAIN rows :
               IsNaN(rows[j].val) \/ Num(rows[j].val) <= Num(rows[k].val)

\* .sort_values(by="MTD % Change", ascending=False) with the default sort
\* kind (quicksort, which is not a stable sort): every ordering of the rows
\* with the values non-increasing and the missing values last is a possible
\* result; missing values keep their relative order
RECURSIVE SortValuesDesc(_)
SortValuesDesc(rows) ==
    IF rows = <<>> THEN {<<>>}
    ELSE UNION {{<<rows[k]>> \o rest : rest \in SortValuesDesc(RemoveAt(rows, k))} :
                   k \in {j \in DOMAIN rows : MayLead(rows, j)}}

\* summary: the last MTD % row, one (name, val) entry per index, sorted
Summaries(mtd) == SortValuesDesc(RowOf(mtd, mtd.index[Len(mtd.index)]))

\* number of names listed per side of a Daily Movers row
TopN == 3

\* variant: every value listed, largest first, no cut at n
RECURSIVE NLargestUncut(_, _)
NLargestUncut(row, n) ==
    IF row = <<>> THEN <<>>
    ELSE LET k == CHOOSE k \in 1..Len(row) :
                    /\ \A j \in 1..Len(row) : Num(row[j].val) <= Num(row[k].val)
                    /\ \A j \in 1..(k - 1) : Num(row[j].val) < Num(row[k].val)
         IN  <<row[k]>> \o NLargestUncut(RemoveAt(row, k), n)

\* row.nlargest(n): the n largest values, the first in column order on ties
RECURSIVE NLargest(_, _)
NLargest(row, n) ==
    IF n = 0 \/ row = <<>> THEN <<>>
    ELSE LET k == CHOOSE k \in 1..Len(row) :
                    /\ \A j \in 1..Len(row) : Num(row[j].val) <= Num(row[k].val)
                    /\ \A j \in 1..(k - 1) : Num(row[j].val) < Num(row[k].val)
         IN  <<row[k]>> \o NLargest(RemoveAt(row, k), n - 1)

\* row.nsmallest(n): the n smallest values, the first in column order on ties
RECURSIVE NSmallest(_, _)
NSmallest(row, n) ==
    IF n = 0 \/ row = <<>> THEN <<>>
    ELSE LET k == CHOOSE k \in 1..Len(row) :
                    /\ \A j \in 1..Len(row) : Num(row[j].val) >= Num(row[k].val)
                    /\ \A j \in 1..(k - 1) : Num(row[j].val) > Num(row[k].val)
         IN  <<row[k]>> \o NSmallest(RemoveAt(row, k), n - 1)

\* ", ".join(names): the names with a separator between neighbours
RECURSIVE Join(_)
Join(names) ==
    IF Len(names) <= 1 THEN names
    ELSE <<Head(names), ", ">> \o Join(Tail(names))

\* dt.strftime("%d-%b-%y"): the zero-padded day of month; month and year are
\* the same for every date of the window
Strftime(dt) == <<dt \div 10, dt % 10>>

\* daily_summary: one row per date, most recent first, dates whose DoD % row
\* has no value left out
RECURSIVE MoversRows(_, _)
MoversRows(dod, dts) ==
    IF dts = <<>> THEN <<>>
    ELSE LET row   == DropnaRow(RowOf(dod, Head(dts)))
             top_g == NLargest(row, TopN)
             top_l == NSmallest(row, TopN)
             rest  == MoversRows(dod, Tail(dts))
         IN  IF Len(row) > 0
             THEN <<[Date    |-> Strftime(Head(dts)),
                     Gainers |-> Join([k \in DOMAIN top_g |-> top_g[k].name]),
                     Losers  |-> Join([k \in DOMAIN top_l |-> top_l[k].name])]>>
                  \o rest
             ELSE rest

DailySummary(dod) == MoversRows(dod, SortIndex(dod, FALSE).index)

\* df_close[col].diff().fillna(0): first row and missing deltas are 0
Diffs(df, c) ==
    [p \in 1..Len(df.index) |->
        IF p = 1 THEN 0
        ELSE LET v == df.data[c][df.index[p]]
                 u == df.data[c][df.index[p - 1]]
             IN  IF IsNaN(v) \/ IsNaN(u) THEN 0 ELSE Num(v) - Num(u)]

\* variant: the running counter kept, not reset, on a day that breaks the run
RECURSIVE RunPassNoReset(_, _, _)
RunPassNoReset(flags, cur, best) ==
    IF flags = <<>> THEN best
    ELSE LET c == IF Head(flags) THEN cur + 1 ELSE cur
         IN  RunPassNoReset(Tail(flags), c, Max2(best, c))

\* the forward pass: cur = cur + 1 if v else 0; best = max(best, cur)
RECURSIVE RunPass(_, _, _)
RunPass(flags, cur, best) ==
    IF flags = <<>> THEN best
    ELSE LET c == IF Head(flags) THEN cur + 1 ELSE 0
         IN  RunPass(Tail(flags), c, Max2(best, c))

LongestRun(flags) == RunPass(flags, 0, 0)

\* streaks_df: one row per column of df_close
Streaks(df) ==
    [k \in 1..Len(df.columns) |->
        LET diffs == Diffs(df, df.columns[k])
        IN  [Index |-> df.columns[k],
             Win   |-> LongestRun([p \in DOMAIN diffs |-> diffs[p] > 0]),
             Lose  |-> LongestRun([p \in DOMAIN diffs |-> diffs[p] < 0])]]

\* the values of summary["MTD % Change"] that mean() and the comparisons see
\* (missing values are skipped)
MtdValues(sm) ==
    LET present == DropnaRow(sm)
    IN  [k \in DOMAIN present |-> Num(present[k].val)]

\* variant: an average of zero counted as Bullish
MoodZeroBullish(sum, count) ==
    IF count = 0 THEN "Neutral"
    ELSE IF sum >= 0 THEN "Bullish"
    ELSE "Bearish"

\* mood from avg_change = sum / count; an empty summary has mean NaN, for
\* which both comparisons are false
Mood(sum, count) ==
    IF count = 0 THEN "Neutral"
    ELSE IF sum > 0 THEN "Bullish"
    ELSE IF sum < 0 THEN "Bearish"
    ELSE "Neutral"

\* market_overview
MarketOverview(sm) ==
    LET vals == MtdValues(sm)
        n    == Len(sm)
    IN  [avg_change |-> IF n = 0 THEN NaN ELSE <<RoundHalfEven(SumSeq(vals), n)>>,
         gain_cnt   |-> Cardinality({k \in DOMAIN vals : vals[k] > 0}),
         loss_cnt   |-> Cardinality({k \in DOMAIN vals : vals[k] < 0}),
         best       |-> IF n > 0 THEN sm[1].name ELSE "",
         worst      |-> IF n > 0 THEN sm[n].name ELSE "",
         mood       |-> Mood(SumSeq(vals), n)]

NoOverview == [avg_change |-> NaN, gain_cnt |-> 0, loss_cnt |-> 0,
               best |-> "", worst |-> "", mood |-> ""]

-----------------------------------------------------------------------------
(* Files. *)

\* symbol.replace('^', 'caret_') + ".csv"
CachePath(symbol) ==
    [k \in DOMAIN symbol |-> IF symbol[k] = "^" THEN "caret_" ELSE symbol[k]]
    \o <<".csv">>

RawSheetNames == <<"Index Close", "MTD %", "Day over Day %", "Summary",
                   "Daily Movers", "Streaks", "Market Overview">>

\* the dashboard's sheets: two renamed, then the desired order, absent ones
\* dropped
DashboardSheets(sheets) ==
    LET renamed == [k \in DOMAIN sheets |->
                      IF sheets[k] = "Day over Day %" THEN "DoD%"
                      ELSE IF sheets[k] = "Market Overview" THEN "Overview"
                      ELSE sheets[k]]
        desired == <<"Overview", "Summary", "Index Close", "MTD %", "DoD%",
                     "Daily Movers", "Streaks">>
    IN  SelectSeq(desired, LAMBDA x : x \in Range(renamed))

StageOrder == <<"config", "fetch", "aggregate", "raw", "csv", "dashboard">>

\* the stage log with stage st entered (once)
Enter(lg, st) == IF lg # <<>> /\ lg[Len(lg)] = st THEN lg ELSE Append(lg, st)

-----------------------------------------------------------------------------
(* The run. *)

Init ==
    /\ pc = "config"
    /\ err = "none"
    /\ log = <<>>
    /\ INDICES = <<>>
    /\ i = 1
    /\ outcome = <<>>
    /\ provided = <<>>
    /\ data_dict = <<>>
    /\ cache = {}
    /\ df_close = EmptyFrame
    /\ df_pct_mtd = EmptyFrame
    /\ df_pct_dod = EmptyFrame
    /\ summary = <<>>
    /\ daily_summary = <<>>
    /\ streaks = <<>>
    /\ market_overview = NoOverview
    /\ written = {}
    /\ raw_sheets = <<>>
    /\ out_sheets = <<>>

Fail(e) == pc' = "failed" /\ err' = e

\* the config file is absent
ConfigMissing ==
    /\ pc = "config"
    /\ Fail("ConfigMissing")
    /\ log' = Enter(log, "config")
    /\ UNCHANGED <<INDICES, i, outcome, provided, data_dict, cache, tables,
                   written, raw_sheets, out_sheets>>

\* both dates are given and one does not parse
ConfigBadDate ==
    /\ pc = "config"
    /\ Fail("DateParseError")
    /\ log' = Enter(log, "config")
    /\ UNCHANGED <<INDICES, i, outcome, provided, data_dict, cache, tables,
                   written, raw_sheets, out_sheets>>

\* the config is read: the indices mapping (possibly empty) in file order
LoadConfig ==
    /\ pc = "config"
    /\ \E n \in 0..MaxIdx :
          /\ INDICES' = SubSeq(AllNames, 1, n)
          /\ outcome' = [name \in Range(SubSeq(AllNames, 1, n)) |-> "pending"]
    /\ pc' = "fetch"
    /\ log' = Enter(log, "config")
    /\ i' = 1
    /\ data_dict' = <<>>
    /\ UNCHANGED <<err, provided, cache, tables, written, raw_sheets, out_sheets>>

InLoop == pc = "fetch" /\ i <= Len(INDICES)

LoopDone == pc = "fetch" /\ i > Len(INDICES)

\* the provider returns rows: the close column is kept under the name, then
\* the cache file is written, a failure of that write being swallowed
FetchOk ==
    /\ InLoop
    /\ \E close \in SeriesSet(MaxDates, MaxPrice), cached \in BOOLEAN :
          /\ provided' = (INDICES[i] :> close) @@ provided
          /\ data_dict' = DictSet(data_dict, INDICES[i], close)
          /\ cache' = IF cached THEN cache \cup {CachePath(Symbol(INDICES[i]))}
                       ELSE cache
    /\ outcome' = [outcome EXCEPT ![INDICES[i]] = "ok"]
    /\ i' = i + 1
    /\ log' = Enter(log, "fetch")
    /\ UNCHANGED <<pc, err, INDICES, tables, written, raw_sheets, out_sheets>>

\* variant: the cache file written before the emptiness test
FetchEmptyWritesCache ==
    /\ InLoop
    /\ outcome' = [outcome EXCEPT ![INDICES[i]] = "empty"]
    /\ cache' = cache \cup {CachePath(Symbol(INDICES[i]))}
    /\ i' = i + 1
    /\ log' = Enter(log, "fetch")
    /\ UNCHANGED <<pc, err, INDICES, provided, data_dict, tables,
                   written, raw_sheets, out_sheets>>

\* the provider returns nothing or an empty table: logged, skipped
FetchEmpty ==
    /\ InLoop
    /\ outcome' = [outcome EXCEPT ![INDICES[i]] = "empty"]
    /\ i' = i + 1
    /\ log' = Enter(log, "fetch")
    /\ UNCHANGED <<pc, err, INDICES, provided, data_dict, cache, tables,
                   written, raw_sheets, out_sheets>>

\* variant: an error discards what earlier iterations collected
FetchErrorClearsResults ==
    /\ InLoop
    /\ outcome' = [outcome EXCEPT ![INDICES[i]] = "error"]
    /\ data_dict' = <<>>
    /\ i' = i + 1
    /\ log' = Enter(log, "fetch")
    /\ UNCHANGED <<pc, err, INDICES, provided, cache, tables,
                   written, raw_sheets, out_sheets>>

\* the provider call raises: caught in the iteration, logged, skipped
FetchError ==
    /\ InLoop
    /\ outcome' = [outcome EXCEPT ![INDICES[i]] = "error"]
    /\ i' = i + 1
    /\ log' = Enter(log, "fetch")
    /\ UNCHANGED <<pc, err, INDICES, provided, data_dict, cache, tables,
                   written, raw_sheets, out_sheets>>

\* variant: the run fails as soon as one index is missing from the results
NoDataFetchedOnAnyFailure ==
    /\ LoopDone
    /\ Len(data_dict) < Len(INDICES) \/ data_dict = <<>>
    /\ Fail("NoDataFetched")
    /\ log' = Enter(log, "fetch")
    /\ UNCHANGED <<INDICES, i, outcome, provided, data_dict, cache, tables,
                   written, raw_sheets, out_sheets>>

\* if not data_dict: raise
NoDataFetched ==
    /\ LoopDone
    /\ data_dict = <<>>
    /\ Fail("NoDataFetched")
    /\ log' = Enter(log, "fetch")
    /\ UNCHANGED <<INDICES, i, outcome, provided, data_dict, cache, tables,
                   written, raw_sheets, out_sheets>>

\* the check after the loop lets the run through
HasData == LoopDone /\ data_dict # <<>>

\* PROCESS DATA: all seven tables from the result mapping
Aggregate ==
    /\ HasData
    /\ LET close == AlignedPrices(data_dict)
           mtd   == PctMtd(close)
           dod   == PctChange(close)
       IN  /\ df_close' = close
           /\ df_pct_mtd' = mtd
           /\ df_pct_dod' = dod
           /\ \E sm \in Summaries(mtd) :
                 /\ summary' = sm
                 /\ market_overview' = MarketOverview(sm)
           /\ daily_summary' = DailySummary(dod)
           /\ streaks' = Streaks(close)
    /\ pc' = "write_raw"
    /\ log' = Enter(Enter(log, "fetch"), "aggregate")
    /\ UNCHANGED <<err, INDICES, i, outcome, provided, data_dict, cache,
                   written, raw_sheets, out_sheets>>

\* the raw workbook is written with its seven sheets
WriteRaw ==
    /\ pc = "write_raw"
    /\ written' = written \cup {"raw"}
    /\ raw_sheets' = RawSheetNames
    /\ pc' = "write_csv"
    /\ log' = Enter(log, "raw")
    /\ UNCHANGED <<err, INDICES, i, outcome, provided, data_dict, cache, tables,
                   out_sheets>>

\* writing the raw workbook fails (disk, permissions): fatal
WriteRawFail ==
    /\ pc = "write_raw"
    /\ Fail("WriteFailure")
    /\ log' = Enter(log, "raw")
    /\ UNCHANGED <<INDICES, i, outcome, provided, data_dict, cache, tables,
                   written, raw_sheets, out_sheets>>

\* the summary CSV is written
WriteCsv ==
    /\ pc = "write_csv"
    /\ written' = written \cup {"csv"}
    /\ pc' = "format"
    /\ log' = Enter(log, "csv")
    /\ UNCHANGED <<err, INDICES, i, outcome, provided, data_dict, cache, tables,
                   raw_sheets, out_sheets>>

\* variant: a failed CSV write is swallowed and the run goes on
WriteCsvFailSwallowed ==
    /\ pc = "write_csv"
    /\ pc' = "format"
    /\ log' = Enter(log, "csv")
    /\ UNCHANGED <<err, INDICES, i, outcome, provided, data_dict, cache, tables,
                   written, raw_sheets, out_sheets>>

\* writing the summary CSV fails: fatal
WriteCsvFail ==
    /\ pc = "write_csv"
    /\ Fail("WriteFailure")
    /\ log' = Enter(log, "csv")
    /\ UNCHANGED <<INDICES, i, outcome, provided, data_dict, cache, tables,
                   written, raw_sheets, out_sheets>>

\* the raw workbook is gone when the formatting stage looks for it (removed
\* from outside the run after it was written)
RawWorkbookMissing ==
    /\ pc = "format"
    /\ raw_sheets' = <<>>
    /\ Fail("RawWorkbookMissing")
    /\ log' = Enter(log, "dashboard")
    /\ UNCHANGED <<INDICES, i, outcome, provided, data_dict, cache, tables,
                   written, out_sheets>>

\* the raw workbook is reopened, restyled, and saved as the dashboard
WriteDashboard ==
    /\ pc = "format"
    /\ raw_sheets # <<>>
    /\ out_sheets' = DashboardSheets(raw_sheets)
    /\ written' = written \cup {"dashboard"}
    /\ pc' = "done"
    /\ log' = Enter(log, "dashboard")
    /\ UNCHANGED <<err, INDICES, i, outcome, provided, data_dict, cache, tables,
                   raw_sheets>>

\* saving the dashboard fails: fatal
WriteDashboardFail ==
    /\ pc = "format"
    /\ raw_sheets # <<>>
    /\ Fail("WriteFailure")
    /\ log' = Enter(log, "dashboard")
    /\ UNCHANGED <<INDICES, i, outcome, provided, data_dict, cache, tables,
                   written, raw_sheets, out_sheets>>

Next ==
    \/ ConfigMissing
    \/ ConfigBadDate
    \/ LoadConfig
    \/ FetchOk
    \/ FetchEmpty
    \/ FetchError
    \/ NoDataFetched
    \/ Aggregate
    \/ WriteRaw
    \/ WriteRawFail
    \/ WriteCsv
    \/ WriteCsvFail
    \/ RawWorkbookMissing
    \/ WriteDashboard
    \/ WriteDashboardFail

Spec == Init /\ [][Next]_vars

-----------------------------------------------------------------------------
(* Aggregation on its own: the state at the end of a fetch loop in which    *)
(* every configured index was fetched, for three families of inputs.       *)

\* day-to-day moves of a close: down, flat, up
Moves == {-1, 0, 1}

RECURSIVE WalkAt(_, _)
WalkAt(m, d) == IF d = 1 THEN BaseClose ELSE WalkAt(m, d - 1) + m[d]

\* fully observed series over dates 1..nd
WalkSeries(nd) ==
    {[d \in 1..nd |-> <<WalkAt(m, d)>>] : m \in [2..nd -> Moves]}

\* series over dates 1..nd in which any close may be missing (NaN)
HoledSeries(nd) ==
    {[d \in 1..nd |-> IF d \in miss THEN NaN ELSE <<WalkAt(m, d)>>] :
        m \in [2..nd -> Moves], miss \in SUBSET (1..nd)}

\* rising series over a non-empty subset of dates 1..nd, any close of which
\* may be missing (NaN)
GappySeries(nd) ==
    UNION {{[d \in D |-> IF d \in miss THEN NaN ELSE <<BaseClose + d>>] :
               miss \in SUBSET D} : D \in (SUBSET (1..nd)) \ {{}}}

\* the state after the fetch loop when index k returned series[k]
Fetched(series) ==
    LET names == SubSeq(AllNames, 1, Len(series))
    IN  /\ pc = "fetch"
        /\ err = "none"
        /\ log = <<"config", "fetch">>
        /\ INDICES = names
        /\ i = Len(names) + 1
        /\ outcome = [name \in Range(names) |-> "ok"]
        /\ provided = [name \in Range(names) |->
                          series[CHOOSE k \in DOMAIN names : names[k] = name]]
        /\ data_dict = [k \in DOMAIN names |->
                           [name |-> names[k], close |-> series[k]]]
        /\ cache = {CachePath(Symbol(names[k])) : k \in DOMAIN names}
        /\ df_close = EmptyFrame
        /\ df_pct_mtd = EmptyFrame
        /\ df_pct_dod = EmptyFrame
        /\ summary = <<>>
        /\ daily_summary = <<>>
        /\ streaks = <<>>
        /\ market_overview = NoOverview
        /\ written = {}
        /\ raw_sheets = <<>>
        /\ out_sheets = <<>>

\* one more index than a side of the Daily Movers digest can name
InitWide == \E series \in [1..(TopN + 1) -> WalkSeries(WideDates)] : Fetched(series)

\* one index over a longer window, with missing closes
InitLong == \E s1 \in HoledSeries(LongDates) : Fetched(<<s1>>)

\* two indices that trade on different dates, with missing closes
InitGap == \E s1, s2 \in GappySeries(GapDates) : Fetched(<<s1, s2>>)

InitAgg == InitWide \/ InitLong \/ InitGap

NextAgg == Aggregate

SpecAgg == InitAgg /\ [][NextAgg]_vars

-----------------------------------------------------------------------------
(* Properties. *)

OkNames == {name \in DOMAIN outcome : outcome[name] = "ok"}

FailedNames == {name \in DOMAIN outcome : outcome[name] \in {"empty", "error"}}

IsPrefix(s, t) == Len(s) <= Len(t) /\ \A k \in DOMAIN s : s[k] = t[k]

Aggregated == "aggregate" \in Range(log)

\* the names of a joined list
JoinedNames(joined) == SelectSeq(joined, LAMBDA x : x # ", ")

\* the day a formatted date stands for
ParseDay(text) == 10 * text[1] + text[2]

Min2(a, b) == IF a <= b THEN a ELSE b

\* C1: while the fetch loop runs no failure of one symbol fails the run, and
\* once the loop's check has run the run has failed with NoDataFetched if and
\* only if no index was fetched successfully.
C1_NoDataIffNoneFetched ==
    /\ pc = "fetch" => err = "none"
    /\ ("fetch" \in Range(log) /\ pc # "fetch") =>
          ((err = "NoDataFetched") <=> (OkNames = {}))

\* a finished run in which one index errored and another was fetched
C1_Witness ==
    /\ pc = "done"
    /\ \E a, b \in DOMAIN outcome : outcome[a] = "error" /\ outcome[b] = "ok"

\* C2: when NoDataFetched is raised, this run has written no cache file, no
\* raw workbook, no summary CSV and no dashboard workbook.
C2_NoOutputOnNoData ==
    err = "NoDataFetched" =>
        /\ cache = {}
        /\ written = {}
        /\ raw_sheets = <<>>
        /\ out_sheets = <<>>

\* NoDataFetched raised after the provider errored or came back empty for
\* every one of several configured symbols
C2_Witness ==
    /\ err = "NoDataFetched"
    /\ Len(INDICES) >= 2
    /\ \E a, b \in DOMAIN outcome : outcome[a] = "error" /\ outcome[b] = "empty"

CanStep ==
    \/ HasData
    \/ ENABLED (ConfigMissing \/ ConfigBadDate \/ LoadConfig \/ FetchOk
                   \/ FetchEmpty \/ FetchError \/ NoDataFetched \/ WriteRaw
                   \/ WriteRawFail \/ WriteCsv \/ WriteCsvFail
                   \/ RawWorkbookMissing \/ WriteDashboard \/ WriteDashboardFail)

\* C9: the stages run in the fixed order; a run that has not ended has no
\* error and can take a step; a run ends either with all three artifacts
\* written and no error, or with a fatal error and no dashboard; the
\* dashboard is written only after the raw workbook and the summary CSV.
C9_LinearStages ==
    /\ IsPrefix(log, StageOrder)
    /\ pc \notin {"done", "failed"} => (err = "none" /\ CanStep)
    /\ pc = "done" => (err = "none" /\ written = {"raw", "csv", "dashboard"}
                          /\ log = StageOrder)
    /\ pc = "failed" => (err # "none" /\ "dashboard" \notin written)
    /\ "dashboard" \in written => {"raw", "csv"} \subseteq written

\* a run that went through all six stages and wrote the three artifacts
C9_Witness ==
    /\ pc = "done"
    /\ log = StageOrder
    /\ written = {"raw", "csv", "dashboard"}

\* position of a name in the columns of the aligned price table
ColPos(name) == CHOOSE k \in DOMAIN df_close.columns : df_close.columns[k] = name

\* the summary has one row per column of the table, holding the column's
\* MTD % at the last date
SummaryIsLastRow ==
    /\ Len(summary) = Len(df_pct_mtd.columns)
    /\ \A c \in Range(df_pct_mtd.columns) :
          \E k \in DOMAIN summary :
             /\ summary[k].name = c
             /\ summary[k].val = df_pct_mtd.data[c][df_pct_mtd.index[Len(df_pct_mtd.index)]]

NonIncreasing ==
    \A a, b \in DOMAIN summary : a < b => Num(summary[a].val) >= Num(summary[b].val)

Closes(c) == [p \in DOMAIN df_close.index |-> Num(df_close.data[c][df_close.index[p]])]

\* rows a..b all rose above (sign = 1) or fell below (sign = -1) the row before
IsRun(cl, a, b, sign) ==
    /\ 2 <= a /\ a <= b /\ b <= Len(cl)
    /\ \A p \in a..b : sign * (cl[p] - cl[p - 1]) > 0

\* n is the length of the longest such run, 0 when there is none
IsLongest(cl, n, sign) ==
    /\ n \in 0..(Max2(Len(cl), 1) - 1)
    /\ n > 0 => \E a, b \in DOMAIN cl : IsRun(cl, a, b, sign) /\ b - a + 1 = n
    /\ \A a, b \in DOMAIN cl : IsRun(cl, a, b, sign) => b - a + 1 <= n

\* C5: for every column of the aligned price table there is one streak row,
\* whose win (lose) count is the length of the longest run of consecutive
\* rows strictly above (below) their preceding row; the first row starts no
\* run, so a single-row series has 0 for both.
C5_LongestStreaks ==
    Aggregated =>
        /\ Len(streaks) = Len(df_close.columns)
        /\ \A k \in DOMAIN streaks :
              /\ streaks[k].Index = df_close.columns[k]
              /\ IsLongest(Closes(streaks[k].Index), streaks[k].Win, 1)
              /\ IsLongest(Closes(streaks[k].Index), streaks[k].Lose, -1)
              /\ Len(df_close.index) = 1 => (streaks[k].Win = 0 /\ streaks[k].Lose = 0)

\* a series that rises, stays flat, then rises again: two rising days, the
\* longest win streak 1
C5_Witness ==
    /\ Aggregated
    /\ \E k \in DOMAIN streaks :
          LET cl == Closes(streaks[k].Index)
          IN  /\ Len(cl) = 4
              /\ cl[2] > cl[1] /\ cl[3] = cl[2] /\ cl[4] > cl[3]
              /\ streaks[k].Win = 1
              /\ streaks[k].Lose = 0

\* the columns with a DoD % value on day d
Valued(d) == {c \in Range(df_pct_dod.columns) : ~IsNaN(df_pct_dod.data[c][d])}

NoRepeat(s) == \A a, b \in DOMAIN s : s[a] = s[b] => a = b

\* C6: every Daily Movers row names exactly min(3, k) gainers and min(3, k)
\* losers, k being the number of indices with a DoD % on the row's date, all
\* of them indices with a DoD % on that date; the dates with a row are the
\* dates with at least one DoD %, so the first date has none; rows are in
\* descending date order.
C6_DailyMovers ==
    Aggregated =>
        /\ \A r \in DOMAIN daily_summary :
              LET d == ParseDay(daily_summary[r].Date)
                  g == JoinedNames(daily_summary[r].Gainers)
                  l == JoinedNames(daily_summary[r].Losers)
              IN  /\ d \in Range(df_pct_dod.index)
                  /\ Len(g) = Min2(3, Cardinality(Valued(d)))
                  /\ Len(l) = Min2(3, Cardinality(Valued(d)))
                  /\ Len(g) <= 3 /\ Len(l) <= 3
                  /\ Range(g) \subseteq Valued(d) /\ NoRepeat(g)
                  /\ Range(l) \subseteq Valued(d) /\ NoRepeat(l)
        /\ {ParseDay(daily_summary[r].Date) : r \in DOMAIN daily_summary}
              = {d \in Range(df_pct_dod.index) : Valued(d) # {}}
        /\ \A r \in DOMAIN daily_summary :
              ParseDay(daily_summary[r].Date) # df_pct_dod.index[1]
        /\ \A a, b \in DOMAIN daily_summary :
              a < b => ParseDay(daily_summary[a].Date) > ParseDay(daily_summary[b].Date)

\* a date on which four indices have a DoD % and each side names three
C6_Witness ==
    /\ Aggregated
    /\ \E r \in DOMAIN daily_summary :
          /\ Cardinality(Valued(ParseDay(daily_summary[r].Date))) = 4
          /\ Len(JoinedNames(daily_summary[r].Gainers)) = 3
          /\ Len(JoinedNames(daily_summary[r].Losers)) = 3

\* C7: the MTD % of every column at the first date of the table is 0.00.
C7_MtdFirstRowZero ==
    Aggregated =>
        \A c \in Range(df_pct_mtd.columns) :
            df_pct_mtd.data[c][df_pct_mtd.index[1]] = <<0>>

\* the raw close of index name on day d is missing or the day is absent
RawMissing(name, d) == d \notin DOMAIN provided[name] \/ IsNaN(provided[name][d])

\* a column whose series had no close on the first date of the table and a
\* different MTD % later
C7_Witness ==
    /\ Aggregated
    /\ \E c \in Range(df_pct_mtd.columns) :
          /\ RawMissing(c, df_pct_mtd.index[1])
          /\ \E d \in Range(df_pct_mtd.index) : df_pct_mtd.data[c][d] # <<0>>

\* C8: the aligned price table has one row per date of the union of the
\* series' dates, ascending; its columns are the fetched indices with at
\* least one close, in order; no cell is missing from a column's first
\* observation on.
C8_AlignedTable ==
    Aggregated =>
        /\ Range(df_close.index) = UNION {DOMAIN provided[name] : name \in OkNames}
        /\ \A a, b \in DOMAIN df_close.index :
              a < b => df_close.index[a] < df_close.index[b]
        /\ df_close.columns =
              SelectSeq(DictKeys(data_dict),
                        LAMBDA name : \E d \in DOMAIN provided[name] :
                                         ~IsNaN(provided[name][d]))
        /\ \A c \in Range(df_close.columns) :
              \A d, e \in Range(df_close.index) :
                 (d <= e /\ ~RawMissing(c, d)) => ~IsNaN(df_close.data[c][e])

\* one index dropped for having no close at all, another with a close
\* missing on a date after its first observation
C8_Witness ==
    /\ Aggregated
    /\ \E name \in OkNames : name \notin Range(df_close.columns)
    /\ \E c \in Range(df_close.columns) :
          \E d, e \in Range(df_close.index) :
             d < e /\ ~RawMissing(c, d) /\ RawMissing(c, e)

\* sum of the Summary's MTD % values; the average has its sign
SummaryTotal == SumSeq([k \in DOMAIN summary |-> Num(summary[k].val)])

\* C10: the mood is Bullish exactly when the average MTD % of the Summary is
\* above 0, Bearish exactly when it is below 0, and Neutral otherwise.
C10_Mood ==
    Aggregated =>
        /\ market_overview.mood \in {"Bullish", "Bearish", "Neutral"}
        /\ market_overview.mood = "Bullish" <=> (summary # <<>> /\ SummaryTotal > 0)
        /\ market_overview.mood = "Bearish" <=> (summary # <<>> /\ SummaryTotal < 0)

\* gains and losses that cancel: an average of exactly zero, mood Neutral
C10_Witness ==
    /\ Aggregated
    /\ market_overview.mood = "Neutral"
    /\ \E a, b \in DOMAIN summary : Num(summary[a].val) > 0 /\ Num(summary[b].val) < 0

====
